---- MODULE Spec2Model ----
(***************************************************************************)
(* Model of src/nodes/Stagehand/Stagehand.node.ts: the n8n Stagehand node. *)
(* execute() walks the input items one at a time; for each item it builds  *)
(* a Stagehand session, opens it (init), optionally navigates (goto),      *)
(* dispatches one operation inside try/catch, and closes the session in    *)
(* finally.  Strings are sequences of characters.  Every engine call is    *)
(* one step whose outcome (returns / throws) and whose log output are      *)
(* chosen by the engine.                                                   *)
(***************************************************************************)
EXTENDS Integers, Sequences, FiniteSets, TLC

VARIABLES host, model, n, i, pc, cur, messages, stale, todo, actResults, results, open,
          calls, caught, output, arg, ret

\* arg and ret are the argument and the result of a helper function checked on
\* its own (sanitizeMessages, extractUsageFromMessages, fieldsToZodSchema)
aside == <<arg, ret>>

vars == <<host, model, n, i, pc, cur, messages, stale, todo, actResults, results, open,
          calls, caught, output, aside>>

(***************************************************************************)
(* Bounds of the model.                                                    *)
(***************************************************************************)
MaxItems == 3   \* largest batch (items.length)
MaxLen == 4     \* longest instructions block, in characters
MaxLog == 1     \* most log lines the engine emits during one item

(***************************************************************************)
(* Strings: sequences over Chars.  " " and "\n" are the whitespace.        *)
(***************************************************************************)
Chars == {"a", "b", " ", "\n"}

Strings(len) == UNION {[1..k -> Chars] : k \in 0..len}

IsSpace(c) == c \in {" ", "\n"}

\* String.prototype.trim
RECURSIVE trim(_)
trim(s) ==
    IF s = <<>> THEN s
    ELSE IF IsSpace(Head(s)) THEN trim(Tail(s))
    ELSE IF IsSpace(s[Len(s)]) THEN trim(SubSeq(s, 1, Len(s) - 1))
    ELSE s

\* String.prototype.split('\n'): the pieces between the newlines; "" gives [""]
RECURSIVE split(_)
split(s) ==
    IF \A k \in 1..Len(s) : s[k] # "\n" THEN <<s>>
    ELSE LET k == CHOOSE j \in 1..Len(s) : s[j] = "\n" /\ \A m \in 1..(j - 1) : s[m] # "\n"
         IN <<SubSeq(s, 1, k - 1)>> \o split(SubSeq(s, k + 1, Len(s)))

\* Array.prototype.filter / map over a sequence
RECURSIVE SelectNonEmpty(_)
SelectNonEmpty(q) ==
    IF q = <<>> THEN <<>>
    ELSE IF Len(Head(q)) > 0 THEN <<Head(q)>> \o SelectNonEmpty(Tail(q))
    ELSE SelectNonEmpty(Tail(q))

MapTrim(q) == [k \in 1..Len(q) |-> trim(q[k])]

(***************************************************************************)
(* Log lines (LogLine of the engine).  marks and length describe           *)
(* JSON.stringify(msg): the marker substrings it contains and its length.  *)
(* auxiliary.response.value is "absent", "malformed" (JSON.parse throws)   *)
(* or "json"; then hasUsage says whether parsed.usage is set and usage     *)
(* maps the counter keys that are present to their values.                 *)
(***************************************************************************)
SanitizeLimit == 5000

NoAux == [value |-> "absent", hasUsage |-> FALSE, usage |-> <<>>]

PlainLine ==
    [category |-> "action", message |-> "clicked", level |-> 1,
     marks |-> {}, length |-> 120, auxiliary |-> NoAux]

ImageLine ==
    [category |-> "action", message |-> "image taken", level |-> 1,
     marks |-> {"image"}, length |-> 120, auxiliary |-> NoAux]

UsageLine ==
    [category |-> "aisdk", message |-> "response", level |-> 2,
     marks |-> {}, length |-> 300,
     auxiliary |-> [value |-> "json", hasUsage |-> TRUE,
                    usage |-> [k \in {"prompt_tokens", "completion_tokens", "total_tokens"} |->
                                 CASE k = "prompt_tokens" -> 2
                                   [] k = "completion_tokens" -> 1
                                   [] OTHER -> 3]]]

LogPool == {PlainLine, ImageLine, UsageLine}

keepMessageUpToLimit(msg) ==
    "image" \notin msg.marks /\ "screenshot" \notin msg.marks /\ msg.length <= SanitizeLimit

\* the filter callback: the serialized form holds neither image nor
\* screenshot and is shorter than 5000 characters
keepMessage(msg) ==
    "image" \notin msg.marks /\ "screenshot" \notin msg.marks /\ msg.length < SanitizeLimit

\* sanitizeMessages: the lines the filter keeps, as category, message, level
RECURSIVE sanitizeMessages(_)
sanitizeMessages(msgs) ==
    IF msgs = <<>> THEN <<>>
    ELSE LET msg == Head(msgs)
         IN (IF keepMessage(msg)
             THEN <<[category |-> msg.category, message |-> msg.message, level |-> msg.level]>>
             ELSE <<>>) \o sanitizeMessages(Tail(msgs))

\* a || b on numbers: the first operand unless it is falsy (0 or missing)
Key(u, k) == IF k \in DOMAIN u THEN u[k] ELSE 0

OrElseBoth(a, b) == a + b

OrElse(a, b) == IF a # 0 THEN a ELSE b

NoUsage == [found |-> FALSE]

RECURSIVE UsageScan(_, _)
UsageScan(msgs, acc) ==
    IF msgs = <<>> THEN acc
    ELSE LET msg == Head(msgs)
             aux == msg.auxiliary
             hit == msg.category = "aisdk" /\ aux.value = "json" /\ aux.hasUsage
             u == aux.usage
         IN UsageScan(Tail(msgs),
                      IF hit
                      THEN [found |-> TRUE,
                            prompt_tokens |-> acc.prompt_tokens
                                + OrElse(Key(u, "prompt_tokens"), Key(u, "promptTokens")),
                            completion_tokens |-> acc.completion_tokens
                                + OrElse(Key(u, "completion_tokens"), Key(u, "completionTokens")),
                            total_tokens |-> acc.total_tokens
                                + OrElse(Key(u, "total_tokens"), Key(u, "totalTokens"))]
                      ELSE acc)

\* extractUsageFromMessages: the summed counters, or null (NoUsage)
extractUsageFromMessages(msgs) ==
    LET acc == UsageScan(msgs, [found |-> FALSE, prompt_tokens |-> 0,
                                completion_tokens |-> 0, total_tokens |-> 0])
    IN IF acc.found THEN acc ELSE NoUsage

(***************************************************************************)
(* Schema sources of extract.  A contract is [type |-> t, shape |-> f]; t  *)
(* is "object" for a ZodObject, another Zod type name, or "undefined" when *)
(* the evaluated code returns no contract at all.                          *)
(***************************************************************************)
Contract(t) == [type |-> t, shape |-> <<>>]

FieldTypes == {"string", "number", "boolean", "array", "object", "date"}

zType(fieldType) ==
    CASE fieldType = "string" -> "string"
      [] fieldType = "number" -> "number"
      [] fieldType = "boolean" -> "boolean"
      [] fieldType = "array" -> "array(any)"
      [] fieldType = "object" -> "object(passthrough)"
      [] OTHER -> "any"

\* fieldsToZodSchema: z.object(shape); a later field of the same name wins.
\* shape is a plain object, so shape['__proto__'] = zType (line 618) sets
\* its prototype and adds no key to it.
fieldsToZodSchema(fields) ==
    LET names == {fields[k].fieldName : k \in 1..Len(fields)} \ {"__proto__"}
        last(nm) == CHOOSE k \in 1..Len(fields) :
                        /\ fields[k].fieldName = nm
                        /\ \A m \in (k + 1)..Len(fields) : fields[m].fieldName # nm
    IN [type |-> "object",
        shape |-> [nm \in names |->
                     [type |-> zType(fields[last(nm)].fieldType),
                      optional |-> fields[last(nm)].optional]]]

FieldLists ==
    {<<>>,
     <<[fieldName |-> "title", fieldType |-> "string", optional |-> FALSE],
       [fieldName |-> "tags", fieldType |-> "array", optional |-> TRUE]>>}

\* example values the host may hand over as text
JsonTexts == {"{bad", "{\"title\":\"x\"}", "[1]", "5", "\"s\"", "null"}

\* JSON Schema documents the host may hand over as text
JsonSchemaTexts == {"{bad", "{\"type\":\"object\"}", "{\"type\":\"string\"}", "{}"}

\* JSON.parse: the kind of the value, or ok = FALSE when it throws
JSONparse(text) ==
    CASE text = "{bad" -> [ok |-> FALSE, kind |-> "none"]
      [] text = "[1]" -> [ok |-> TRUE, kind |-> "array"]
      [] text = "5" -> [ok |-> TRUE, kind |-> "number"]
      [] text = "\"s\"" -> [ok |-> TRUE, kind |-> "string"]
      [] text = "null" -> [ok |-> TRUE, kind |-> "null"]
      [] OTHER -> [ok |-> TRUE, kind |-> "object"]

\* new Function('z', jsonToZod(value) + 'return schema;')(z): the Zod type
\* json-to-zod writes for a value is the one of the value's own kind
jsonToZod(kind) == Contract(kind)

\* new Function('z', 'return ' + jsonSchemaToZod(document))(z): the Zod type
\* json-schema-to-zod writes for the "type" member (no type: z.any())
jsonSchemaToZod(text) ==
    CASE text = "{\"type\":\"object\"}" -> Contract("object")
      [] text = "{\"type\":\"string\"}" -> Contract("string")
      [] OTHER -> Contract("any")

\* Zod code typed by the user, evaluated as 'return <code>;'
ManualTexts == {"z.object({})", "z.string()", "undefined", "z.object("}

evalManual(code) ==
    CASE code = "z.object({})" -> [ok |-> TRUE, schema |-> Contract("object")]
      [] code = "z.string()" -> [ok |-> TRUE, schema |-> Contract("string")]
      [] code = "undefined" -> [ok |-> TRUE, schema |-> Contract("undefined")]
      [] OTHER -> [ok |-> FALSE, schema |-> Contract("undefined")]

SchemaSources == {"fieldList", "example", "jsonSchema", "manual", "csv"}

\* what the host binds to the schema parameter of each source
Descriptors(schemaSource) ==
    CASE schemaSource = "fieldList" -> FieldLists
      [] schemaSource = "example" -> JsonTexts
      [] schemaSource = "jsonSchema" -> JsonSchemaTexts
      [] schemaSource = "manual" -> ManualTexts
      [] OTHER -> {"-"}

\* the switch on schemaSource: the contract, or ok = FALSE when it throws
resolveSchema(schemaSource, d) ==
    CASE schemaSource = "fieldList" -> [ok |-> TRUE, schema |-> fieldsToZodSchema(d)]
      [] schemaSource = "example" ->
            IF JSONparse(d).ok
            THEN [ok |-> TRUE, schema |-> jsonToZod(JSONparse(d).kind)]
            ELSE [ok |-> FALSE, schema |-> Contract("undefined")]
      [] schemaSource = "jsonSchema" ->
            IF JSONparse(d).ok
            THEN [ok |-> TRUE, schema |-> jsonSchemaToZod(d)]
            ELSE [ok |-> FALSE, schema |-> Contract("undefined")]
      [] schemaSource = "manual" -> evalManual(d)
      [] OTHER -> [ok |-> FALSE, schema |-> Contract("undefined")]

(***************************************************************************)
(* What the host binds to the node parameters of an item, and what the     *)
(* engine hands back.                                                      *)
(***************************************************************************)
Operations == {"act", "extract", "observe", "agent", "scroll"}

PageUrls == {"", "https://example.com"}

Unread == "<unread>"

\* instruction blocks of the batch runs: two lines, a blank first line, nothing
SampleBlocks == {<<"a", "\n", "b">>, <<"\n", "b">>, <<>>}

AllBlocks == Strings(MaxLen)

AgentResults ==
    {[success |-> TRUE, message |-> "done", completed |-> TRUE,
      actions |-> <<[type |-> "click", reasoning |-> "r", parameters |-> "p",
                     taskCompleted |-> TRUE, screenshot |-> "png"]>>],
     [success |-> FALSE, message |-> "gave up", completed |-> FALSE, actions |-> <<>>]}

\* the log lines the engine may still emit through the item's logger
LogBursts(room) == UNION {[1..k -> LogPool] : k \in 0..room}

\* a line as the logger of a session receives it; session names the session
\* that emitted it
Emitted(line, session) == line @@ [session |-> session]

\* a logger registered whatever logMessages holds (mutant)
BurstsUnconditional ==
    {[k \in 1..Len(b) |-> Emitted(b[k], i)] : b \in LogBursts(MaxLog - Len(messages))}

\* lines 410-414: what the logger of the current session pushes during one
\* engine call; without logMessages no logger is registered
Bursts ==
    IF cur.logMessages
    THEN {[k \in 1..Len(b) |-> Emitted(b[k], i)] : b \in LogBursts(MaxLog - Len(messages))}
    ELSE {<<>>}

\* one array for all items, declared before the loop (mutant)
loggerBufferShared(session) == i

\* lines 391 and 411-413: the array the logger of a session pushes to is the
\* one declared in that item's iteration of the loop
loggerBuffer(session) == session

Call(name, instruction, schema, ok) ==
    [call |-> name, instruction |-> instruction, schema |-> schema, ok |-> ok]

Pending == [state |-> "pending", records |-> <<>>]

(***************************************************************************)
(* The connected language model (getInputConnectionData).  A model name is *)
(* a string cut into parts, so that includes('deepseek') is the presence   *)
(* of the part "deepseek".  A member (model, apiKey) is [has, type, text]: *)
(* has is "'member' in model", type is typeof, text the string value.      *)
(***************************************************************************)
Namespaces ==
    {<<"langchain", "chat_models", "openai">>,
     <<"langchain", "chat_models", "google_genai">>,
     <<"langchain", "chat_models", "google_vertexai">>,
     <<"langchain", "chat_models", "deepseek">>,
     <<"langchain", "llms", "openai">>,
     <<>>}

StringMember(text) == [has |-> TRUE, type |-> "string", text |-> text]

NumberMember == [has |-> TRUE, type |-> "number", text |-> <<>>]

MissingMember == [has |-> FALSE, type |-> "undefined", text |-> <<>>]

ModelNames == {<<"gpt-4o">>, <<"deepseek", "-chat">>, <<"x-", "deepseek", "-r1">>}

ModelMembers == {StringMember(t) : t \in ModelNames} \cup {NumberMember, MissingMember}

KeyMembers == {StringMember(<<"sk-1">>), NumberMember, MissingMember}

Models ==
    [lc_namespace : Namespaces, model : ModelMembers, apiKey : KeyMembers]

\* the models of the runs that are not about the model: a chat model of
\* openai, and no connected model at all
SampleModels ==
    {[lc_namespace |-> <<"langchain", "chat_models", "openai">>,
      model |-> StringMember(<<"gpt-4o">>), apiKey |-> StringMember(<<"sk-1">>)],
     [lc_namespace |-> <<>>, model |-> MissingMember, apiKey |-> MissingMember]}

NoModel == [lc_namespace |-> <<>>, model |-> MissingMember, apiKey |-> MissingMember]

\* String.prototype.includes on a name cut into parts
includes(text, part) == \E k \in 1..Len(text) : text[k] = part

\* isChatInstance accepting whatever is connected (mutant)
isChatInstanceAlways(m) == TRUE

\* lines 586-590: isChatInstance
isChatInstance(m) == \E k \in 1..Len(m.lc_namespace) : m.lc_namespace[k] = "chat_models"

\* lines 378-382: the five asserts
assertModel(m) ==
    /\ isChatInstance(m)
    /\ m.model.has
    /\ m.apiKey.has
    /\ m.model.type = "string"
    /\ m.apiKey.type = "string"

\* the provider with the model name looked at before the namespace (mutant)
providerDeepseekFirst(m) ==
    LET p == m.lc_namespace[3]
    IN IF includes(m.model.text, "deepseek") THEN "deepseek"
       ELSE IF p \in {"google_genai", "google_vertexai"} THEN "google"
       ELSE p

\* lines 393-398: the provider Stagehand is given
provider(m) ==
    LET p == m.lc_namespace[3]
    IN IF p \in {"google_genai", "google_vertexai"} THEN "google"
       ELSE IF includes(m.model.text, "deepseek") THEN "deepseek"
       ELSE p

\* line 415: modelName: provider + '/' + model.model
modelName(m) == <<provider(m), "/">> \o m.model.text

(***************************************************************************)
(* Pieces of execute.                                                      *)
(***************************************************************************)
\* Instructions without the filter on the line length (mutant)
InstructionsKeepEmpty(instructionsRaw) == MapTrim(split(instructionsRaw))

\* line 437: split on newlines, trim each line, drop the empty ones
Instructions(instructionsRaw) == SelectNonEmpty(MapTrim(split(instructionsRaw)))

\* lines 459 and 508: split('\n')[0]?.trim() || ''
FirstInstruction(instructionsRaw) == trim(split(instructionsRaw)[1])

\* line 524: instructionsRaw.trim()
AgentInstruction(instructionsRaw) == trim(instructionsRaw)

\* goto called whatever pageUrl holds (mutant)
navigatesAlways(pageUrl) == TRUE

\* line 427: if (pageUrl)
navigates(pageUrl) == pageUrl # ""

\* the switch with the default case falling into 'observe' (mutant)
switchCaseFallThrough(operation) ==
    IF operation \in {"act", "extract", "agent"} THEN operation ELSE "observe"

\* the switch on operation: the case taken
switchCase(operation) ==
    IF operation \in {"act", "extract", "observe", "agent"} THEN operation ELSE "default"

\* ...(logMessages ? { messages: sanitizeMessages(messages) } : {})
WithMessages(json, logMessages, msgs) ==
    IF logMessages THEN json @@ [messages |-> sanitizeMessages(msgs)] ELSE json

\* the catch block keeping the pairs collected so far (mutant)
ErrorRecordWithResults(item, operation, logMessages, msgs) ==
    [item |-> item, error |-> TRUE,
     json |-> WithMessages([operation |-> operation, results |-> actResults],
                           logMessages, msgs)]

\* lines 569-577: the record of the catch block
ErrorRecord(item, operation, logMessages, msgs) ==
    [item |-> item, error |-> TRUE,
     json |-> WithMessages([operation |-> operation], logMessages, msgs)]

\* a record pushed by a case of the switch
Record(item, json, logMessages, msgs) ==
    [item |-> item, error |-> FALSE, json |-> WithMessages(json, logMessages, msgs)]

\* lines 541-546: the fields kept of an agent action
simplifiedActions(actions) ==
    [k \in 1..Len(actions) |->
        [type |-> actions[k].type, reasoning |-> actions[k].reasoning,
         parameters |-> actions[k].parameters, taskCompleted |-> actions[k].taskCompleted]]

\* close() returning without releasing the session (mutant)
ReleasedNothing(sessions, item) == sessions

\* the sessions left open once close() of the item's session has returned
Released(sessions, item) == sessions \ {item}

\* the catch block: push the error record and go on to finally
Catch ==
    /\ results' = Append(results, ErrorRecord(i, cur.operation, cur.logMessages, messages'))
    /\ caught' = TRUE
    /\ pc' = "finally"

\* an exception that leaves execute: the promise rejects, results are dropped
Reject ==
    /\ pc' = "thrown"
    /\ output' = [state |-> "rejected", records |-> <<>>]

(***************************************************************************)
(* The steps of execute.                                                   *)
(***************************************************************************)
\* lines 374-382: the connected model passes the asserts
ValidateOk ==
    /\ pc = "start"
    /\ \E m \in host.models : assertModel(m) /\ model' = m
    /\ pc' = "loop"
    /\ UNCHANGED <<aside, stale, host, n, i, cur, messages, todo, actResults, results, open,
                   calls, caught, output>>

\* lines 374-382: an assert fails and execute rejects before the loop
ValidateThrow ==
    /\ pc = "start"
    /\ \E m \in host.models : ~assertModel(m) /\ model' = m
    /\ Reject
    /\ UNCHANGED <<aside, stale, host, n, i, cur, messages, todo, actResults, results, open,
                   calls, caught>>

\* lines 384-422: read the item's parameters, fresh buffer, build the session
BeginItem ==
    /\ pc = "loop"
    /\ i <= n
    /\ \E operation \in Operations, logMessages \in host.logMessages :
          cur' = [operation |-> operation, logMessages |-> logMessages,
                  modelName |-> modelName(model),
                  pageUrl |-> Unread, instructionsRaw |-> <<>>, schemaSource |-> Unread]
    /\ messages' = <<>>
    /\ calls' = <<>>
    /\ caught' = FALSE
    /\ todo' = <<>>
    /\ actResults' = <<>>
    /\ pc' = "init"
    /\ UNCHANGED <<aside, model, stale, host, n, i, results, open, output>>

\* line 423: await stagehand.init() returns
InitOk ==
    /\ pc = "init"
    /\ \E burst \in Bursts : messages' = messages \o burst
    /\ open' = open \cup {i}
    /\ calls' = Append(calls, Call("init", <<>>, "", TRUE))
    /\ pc' = "nav"
    /\ UNCHANGED <<aside, model, stale, host, n, i, cur, todo, actResults, results, caught, output>>

\* line 423: await stagehand.init() throws, outside the try block
InitThrow ==
    /\ pc = "init"
    /\ \E burst \in Bursts : messages' = messages \o burst
    /\ calls' = Append(calls, Call("init", <<>>, "", FALSE))
    /\ Reject
    /\ UNCHANGED <<aside, model, stale, host, n, i, cur, todo, actResults, results, open, caught>>

\* lines 426-431 with an empty pageUrl: no navigation
NavigateSkip ==
    /\ pc = "nav"
    /\ \E pageUrl \in PageUrls : ~navigates(pageUrl) /\ cur' = [cur EXCEPT !.pageUrl = pageUrl]
    /\ pc' = "try"
    /\ UNCHANGED <<aside, model, stale, host, n, i, messages, todo, actResults, results, open, calls, caught, output>>

\* lines 426-431: await page.goto(pageUrl) returns
NavigateOk ==
    /\ pc = "nav"
    /\ \E pageUrl \in PageUrls : navigates(pageUrl) /\ cur' = [cur EXCEPT !.pageUrl = pageUrl]
    /\ \E burst \in Bursts : messages' = messages \o burst
    /\ calls' = Append(calls, Call("goto", <<>>, "", TRUE))
    /\ pc' = "try"
    /\ UNCHANGED <<aside, model, stale, host, n, i, todo, actResults, results, open, caught, output>>

\* lines 426-431: await page.goto(pageUrl) throws, outside the try block
NavigateThrow ==
    /\ pc = "nav"
    /\ \E pageUrl \in PageUrls : navigates(pageUrl) /\ cur' = [cur EXCEPT !.pageUrl = pageUrl]
    /\ \E burst \in Bursts : messages' = messages \o burst
    /\ calls' = Append(calls, Call("goto", <<>>, "", FALSE))
    /\ Reject
    /\ UNCHANGED <<aside, model, stale, host, n, i, todo, actResults, results, open, caught>>

\* lines 436-439: case 'act', up to the loop over the instructions
ActBegin ==
    /\ pc = "try"
    /\ switchCase(cur.operation) = "act"
    /\ \E instructionsRaw \in host.blocks :
          /\ cur' = [cur EXCEPT !.instructionsRaw = instructionsRaw]
          /\ todo' = Instructions(instructionsRaw)
    /\ actResults' = <<>>
    /\ pc' = "act"
    /\ UNCHANGED <<aside, model, stale, host, n, i, messages, results, open, calls, caught, output>>

\* lines 440-444: await page.act(instruction) returns for the next instruction
ActStep ==
    /\ pc = "act"
    /\ todo # <<>>
    /\ \E burst \in Bursts : messages' = messages \o burst
    /\ calls' = Append(calls, Call("act", Head(todo), "", TRUE))
    /\ actResults' = Append(actResults, [instruction |-> Head(todo), result |-> "acted"])
    /\ todo' = Tail(todo)
    /\ UNCHANGED <<aside, model, stale, host, n, i, pc, cur, results, open, caught, output>>

\* lines 440-444: await page.act(instruction) throws; the catch block runs
ActThrow ==
    /\ pc = "act"
    /\ todo # <<>>
    /\ \E burst \in Bursts : messages' = messages \o burst
    /\ calls' = Append(calls, Call("act", Head(todo), "", FALSE))
    /\ Catch
    /\ UNCHANGED <<aside, model, stale, host, n, i, cur, todo, actResults, open, output>>

\* lines 446-454: the loop is over, push the act record
ActDone ==
    /\ pc = "act"
    /\ todo = <<>>
    /\ results' = Append(results,
           Record(i, [operation |-> cur.operation, results |-> actResults,
                      currentUrl |-> "page.url()"], cur.logMessages, messages))
    /\ pc' = "finally"
    /\ UNCHANGED <<aside, model, stale, host, n, i, cur, messages, todo, actResults, open, calls, caught, output>>

\* lines 458-503: case 'extract', the schema resolves and page.extract returns
ExtractOk ==
    /\ pc = "try"
    /\ switchCase(cur.operation) = "extract"
    /\ \E instructionsRaw \in host.blocks, schemaSource \in SchemaSources :
          \E d \in Descriptors(schemaSource) :
             LET r == resolveSchema(schemaSource, d) IN
             /\ r.ok
             /\ cur' = [cur EXCEPT !.instructionsRaw = instructionsRaw,
                                   !.schemaSource = schemaSource]
             /\ calls' = Append(calls,
                    Call("extract", FirstInstruction(instructionsRaw), r.schema.type, TRUE))
    /\ \E burst \in Bursts : messages' = messages \o burst
    /\ results' = Append(results,
           Record(i, [operation |-> cur.operation, result |-> "data"],
                  cur.logMessages, messages'))
    /\ pc' = "finally"
    /\ UNCHANGED <<aside, model, stale, host, n, i, todo, actResults, open, caught, output>>

\* lines 458-491: case 'extract', resolving the schema throws
ExtractSchemaThrow ==
    /\ pc = "try"
    /\ switchCase(cur.operation) = "extract"
    /\ \E instructionsRaw \in host.blocks, schemaSource \in SchemaSources :
          \E d \in Descriptors(schemaSource) :
             /\ ~resolveSchema(schemaSource, d).ok
             /\ cur' = [cur EXCEPT !.instructionsRaw = instructionsRaw,
                                   !.schemaSource = schemaSource]
    /\ UNCHANGED <<messages, calls>>
    /\ Catch
    /\ UNCHANGED <<aside, model, stale, host, n, i, todo, actResults, open, output>>

\* lines 493-502: case 'extract', await page.extract throws
ExtractThrow ==
    /\ pc = "try"
    /\ switchCase(cur.operation) = "extract"
    /\ \E instructionsRaw \in host.blocks, schemaSource \in SchemaSources :
          \E d \in Descriptors(schemaSource) :
             LET r == resolveSchema(schemaSource, d) IN
             /\ r.ok
             /\ cur' = [cur EXCEPT !.instructionsRaw = instructionsRaw,
                                   !.schemaSource = schemaSource]
             /\ calls' = Append(calls,
                    Call("extract", FirstInstruction(instructionsRaw), r.schema.type, FALSE))
    /\ \E burst \in Bursts : messages' = messages \o burst
    /\ Catch
    /\ UNCHANGED <<aside, model, stale, host, n, i, todo, actResults, open, output>>

\* lines 506-520: case 'observe', await page.observe returns
ObserveOk ==
    /\ pc = "try"
    /\ switchCase(cur.operation) = "observe"
    /\ \E instructionsRaw \in host.blocks :
          /\ cur' = [cur EXCEPT !.instructionsRaw = instructionsRaw]
          /\ calls' = Append(calls,
                 Call("observe", FirstInstruction(instructionsRaw), "", TRUE))
    /\ \E burst \in Bursts : messages' = messages \o burst
    /\ results' = Append(results,
           Record(i, [operation |-> cur.operation, result |-> "plan"],
                  cur.logMessages, messages'))
    /\ pc' = "finally"
    /\ UNCHANGED <<aside, model, stale, host, n, i, todo, actResults, open, caught, output>>

\* lines 506-520: case 'observe', await page.observe throws
ObserveThrow ==
    /\ pc = "try"
    /\ switchCase(cur.operation) = "observe"
    /\ \E instructionsRaw \in host.blocks :
          /\ cur' = [cur EXCEPT !.instructionsRaw = instructionsRaw]
          /\ calls' = Append(calls,
                 Call("observe", FirstInstruction(instructionsRaw), "", FALSE))
    /\ \E burst \in Bursts : messages' = messages \o burst
    /\ Catch
    /\ UNCHANGED <<aside, model, stale, host, n, i, todo, actResults, open, output>>

\* lines 522-562: case 'agent', await agent.execute returns
AgentOk ==
    /\ pc = "try"
    /\ switchCase(cur.operation) = "agent"
    /\ \E instructionsRaw \in host.blocks :
          /\ cur' = [cur EXCEPT !.instructionsRaw = instructionsRaw]
          /\ calls' = Append(calls,
                 Call("agent", AgentInstruction(instructionsRaw), "", TRUE))
    /\ \E burst \in Bursts : messages' = messages \o burst
    /\ \E agentResult \in AgentResults :
          results' = Append(results,
              Record(i, [operation |-> cur.operation,
                         success |-> agentResult.success,
                         message |-> agentResult.message,
                         completed |-> agentResult.completed,
                         actions |-> simplifiedActions(agentResult.actions),
                         actionCount |-> Len(agentResult.actions),
                         usage |-> extractUsageFromMessages(messages'),
                         currentUrl |-> "page.url()"],
                     cur.logMessages, messages'))
    /\ pc' = "finally"
    /\ UNCHANGED <<aside, model, stale, host, n, i, todo, actResults, open, caught, output>>

\* lines 522-535: case 'agent', await agent.execute throws
AgentThrow ==
    /\ pc = "try"
    /\ switchCase(cur.operation) = "agent"
    /\ \E instructionsRaw \in host.blocks :
          /\ cur' = [cur EXCEPT !.instructionsRaw = instructionsRaw]
          /\ calls' = Append(calls,
                 Call("agent", AgentInstruction(instructionsRaw), "", FALSE))
    /\ \E burst \in Bursts : messages' = messages \o burst
    /\ Catch
    /\ UNCHANGED <<aside, model, stale, host, n, i, todo, actResults, open, output>>

\* lines 564-566: the default case throws 'Unsupported operation'
Unsupported ==
    /\ pc = "try"
    /\ switchCase(cur.operation) = "default"
    /\ UNCHANGED <<messages, calls>>
    /\ Catch
    /\ UNCHANGED <<aside, model, stale, host, n, i, cur, todo, actResults, open, output>>

\* lines 578-581: finally, await stagehand.close() returns; next item
CloseOk ==
    /\ pc = "finally"
    /\ \E burst \in Bursts : messages' = messages \o burst
    /\ calls' = Append(calls, Call("close", <<>>, "", TRUE))
    /\ open' = Released(open, i)
    /\ stale' = Append(stale, [logger |-> cur.logMessages, late |-> <<>>])
    /\ i' = i + 1
    /\ pc' = "loop"
    /\ UNCHANGED <<aside, model, host, n, cur, todo, actResults, results, caught, output>>

\* lines 578-581: finally, await stagehand.close() throws and leaves execute;
\* the session may or may not have been released
CloseThrow ==
    /\ pc = "finally"
    /\ \E burst \in Bursts : messages' = messages \o burst
    /\ calls' = Append(calls, Call("close", <<>>, "", FALSE))
    /\ open' \in {open, Released(open, i)}
    /\ Reject
    /\ UNCHANGED <<aside, model, stale, host, n, i, cur, todo, actResults, results, caught>>

\* line 583: return [results]
Return ==
    /\ pc = "loop"
    /\ i > n
    /\ pc' = "returned"
    /\ output' = [state |-> "returned", records |-> results]
    /\ UNCHANGED <<aside, model, stale, host, n, i, cur, messages, todo, actResults, results, open, calls, caught>>

Next ==
    \/ ValidateOk \/ ValidateThrow
    \/ BeginItem \/ InitOk \/ InitThrow
    \/ NavigateSkip \/ NavigateOk \/ NavigateThrow
    \/ ActBegin \/ ActStep \/ ActThrow \/ ActDone
    \/ ExtractOk \/ ExtractSchemaThrow \/ ExtractThrow
    \/ ObserveOk \/ ObserveThrow
    \/ AgentOk \/ AgentThrow
    \/ Unsupported
    \/ CloseOk \/ CloseThrow
    \/ Return

\* the lines a session still emits after its item is over
LateLines == {UsageLine}

\* lines 411-413: the engine calls the logger of a session whose item is
\* over, while a later item is being processed; stale[s].late holds what
\* the array of item s has received since
LateLog ==
    /\ pc \in {"init", "nav", "try", "act", "finally"}
    /\ \E s \in 1..Len(stale), line \in LateLines :
          /\ stale[s].logger
          /\ Len(stale[s].late) < MaxLog
          /\ IF loggerBuffer(s) = i
             THEN /\ messages' = Append(messages, Emitted(line, s))
                  /\ stale' = stale
             ELSE /\ stale' = [stale EXCEPT ![loggerBuffer(s)].late =
                                    Append(@, Emitted(line, s))]
                  /\ messages' = messages
    /\ UNCHANGED <<aside, model, host, n, i, pc, cur, todo, actResults, results, open,
                   calls, caught, output>>

NextLate == Next \/ LateLog

NoItem ==
    [operation |-> Unread, logMessages |-> FALSE, modelName |-> <<>>, pageUrl |-> Unread,
     instructionsRaw |-> <<>>, schemaSource |-> Unread]

NotApplied == [done |-> FALSE]

\* nothing of execute has run
Idle ==
    /\ model = NoModel
    /\ i = 1
    /\ pc = "start"
    /\ cur = NoItem
    /\ messages = <<>>
    /\ stale = <<>>
    /\ todo = <<>>
    /\ actResults = <<>>
    /\ results = <<>>
    /\ open = {}
    /\ calls = <<>>
    /\ caught = FALSE
    /\ output = Pending

\* line 373: the state when execute is entered
Start ==
    /\ arg = <<>>
    /\ ret = NotApplied
    /\ Idle

\* batches of up to MaxItems items with the sample instruction blocks and
\* options.logMessages left at its default (false)
Init ==
    /\ host = [models |-> SampleModels, blocks |-> SampleBlocks, logMessages |-> {FALSE}]
    /\ n \in 1..MaxItems
    /\ Start

Spec == Init /\ [][Next]_vars

\* one item, with every instruction block of up to MaxLen characters
InitText ==
    /\ host = [models |-> SampleModels, blocks |-> AllBlocks, logMessages |-> {FALSE}]
    /\ n = 1
    /\ Start

SpecText == InitText /\ [][Next]_vars

\* one or two items with options.logMessages on or off, the engine logging
\* up to MaxLog lines per item
InitLog ==
    /\ host = [models |-> SampleModels, blocks |-> SampleBlocks, logMessages |-> BOOLEAN]
    /\ n \in {1, 2}
    /\ Start

SpecLog == InitLog /\ [][Next]_vars

\* as InitLog with a single instruction block, and with the loggers of
\* finished items still being called
InitLate ==
    /\ host = [models |-> SampleModels, blocks |-> {<<"a", "\n", "b">>},
               logMessages |-> BOOLEAN]
    /\ n \in {1, 2}
    /\ Start

SpecLate == InitLate /\ [][NextLate]_vars

\* one item, with every connected model of Models
InitModel ==
    /\ host = [models |-> Models, blocks |-> SampleBlocks, logMessages |-> {FALSE}]
    /\ n = 1
    /\ Start

SpecModel == InitModel /\ [][Next]_vars

(***************************************************************************)
(* The helper functions alone: arg is the argument of one call and ret its *)
(* result; execute is not running.                                         *)
(***************************************************************************)
MaxMsgs == 3     \* longest log handed to sanitizeMessages / extractUsageFromMessages
MaxFields == 2   \* longest field list handed to fieldsToZodSchema

SeqsUpTo(S, len) == UNION {[1..k -> S] : k \in 0..len}

NoBatch == [models |-> {}, blocks |-> {}, logMessages |-> {}]

Apply(value) ==
    /\ ~ret.done
    /\ ret' = [done |-> TRUE, value |-> value]
    /\ UNCHANGED <<arg, host, model, n, i, pc, cur, messages, stale, todo, actResults,
                   results, open, calls, caught, output>>

\* log lines around the size limit, with and without the marker substrings
FilterLines ==
    {[category |-> IF "screenshot" \in mk THEN "screenshot" ELSE "action",
      message |-> IF "image" \in mk THEN "image taken" ELSE "clicked",
      level |-> lv, marks |-> mk, length |-> ln, auxiliary |-> NoAux] :
        mk \in {{}, {"image"}, {"screenshot"}}, lv \in {0, 1},
        ln \in {SanitizeLimit - 1, SanitizeLimit, SanitizeLimit + 1}}

InitFilter ==
    /\ host = NoBatch
    /\ n = 0
    /\ Idle
    /\ arg \in SeqsUpTo(FilterLines, MaxMsgs)
    /\ ret = NotApplied

ApplySanitize == Apply(sanitizeMessages(arg))

SpecFilter == InitFilter /\ [][ApplySanitize]_vars

\* auxiliary.response.value of a log line: missing, not JSON, JSON without
\* usage, and JSON with the counters in snake case, in camel case, in both
\* (a zero snake counter gives way to the camel one), or with none of them
UsagePayloads ==
    {NoAux,
     [value |-> "malformed", hasUsage |-> FALSE, usage |-> <<>>],
     [value |-> "json", hasUsage |-> FALSE, usage |-> <<>>],
     UsageLine.auxiliary,
     [value |-> "json", hasUsage |-> TRUE,
      usage |-> [promptTokens |-> 4, completionTokens |-> 1, totalTokens |-> 5]],
     [value |-> "json", hasUsage |-> TRUE,
      usage |-> [prompt_tokens |-> 0, promptTokens |-> 7, completion_tokens |-> 2,
                 completionTokens |-> 9, totalTokens |-> 8]],
     [value |-> "json", hasUsage |-> TRUE, usage |-> [cached_tokens |-> 6]]}

UsageLines ==
    {[category |-> c, message |-> "response", level |-> 2, marks |-> {}, length |-> 300,
      auxiliary |-> a] : c \in {"aisdk", "action"}, a \in UsagePayloads}

InitUsage ==
    /\ host = NoBatch
    /\ n = 0
    /\ Idle
    /\ arg \in SeqsUpTo(UsageLines, MaxMsgs)
    /\ ret = NotApplied

ApplyExtractUsage == Apply(extractUsageFromMessages(arg))

SpecUsage == InitUsage /\ [][ApplyExtractUsage]_vars

\* field descriptors of the fields parameter; "date" is a kind the switch
\* does not know
FieldNames == {"title", "tags", "__proto__"}

Fields == [fieldName : FieldNames, fieldType : FieldTypes, optional : BOOLEAN]

InitFields ==
    /\ host = NoBatch
    /\ n = 0
    /\ Idle
    /\ arg \in SeqsUpTo(Fields, MaxFields)
    /\ ret = NotApplied

ApplyFieldsToZodSchema == Apply(fieldsToZodSchema(arg))

SpecFields == InitFields /\ [][ApplyFieldsToZodSchema]_vars

(***************************************************************************)
(* Properties.                                                             *)
(***************************************************************************)
Terminal == pc \in {"returned", "thrown"}

\* the item the calls in `calls` belong to
Item == IF pc \in {"loop", "returned"} THEN i - 1 ELSE i

CallsOf(name) == SelectSeq(calls, LAMBDA c : c.call = name)

Failed(name) == \E k \in 1..Len(calls) : calls[k].call = name /\ ~calls[k].ok

SessionOpened == \E k \in 1..Len(calls) : calls[k].call = "init" /\ calls[k].ok

\* processing of the item of `calls` is over
ItemEnded == Terminal \/ (pc = "loop" /\ i > 1)

\* the switch of the item of `calls` has been left (by break or through catch)
Dispatched == pc = "finally" \/ CallsOf("close") # <<>>

NoPayload(json) == DOMAIN json \subseteq {"operation", "messages"}

\* The lines of a block, stated on positions: a line lies between two
\* neighbouring breaks (a newline, the start, the end); an instruction is a
\* line from its first to its last non-blank character.
Breaks(s) == {0, Len(s) + 1} \cup {k \in 1..Len(s) : s[k] = "\n"}

Ink(s, p, q) == {k \in (p + 1)..(q - 1) : s[k] # " "}

InkedLines(s) ==
    {l \in Breaks(s) \X Breaks(s) :
        /\ l[1] < l[2]
        /\ \A b \in Breaks(s) : ~(l[1] < b /\ b < l[2])
        /\ Ink(s, l[1], l[2]) # {}}

Min(S) == CHOOSE x \in S : \A y \in S : x <= y

Max(S) == CHOOSE x \in S : \A y \in S : x >= y

Inked(s, l) == SubSeq(s, Min(Ink(s, l[1], l[2])), Max(Ink(s, l[1], l[2])))

\* the non-blank lines of s, trimmed, in the order of the block
ExpectedInstructions(s) ==
    LET L == InkedLines(s)
        ord == CHOOSE f \in [1..Cardinality(L) -> L] :
                  \A a, b \in 1..Cardinality(L) : a < b => f[a][1] < f[b][1]
    IN [k \in 1..Cardinality(L) |-> Inked(s, ord[k])]

FirstNonEmptyLine(s) ==
    IF ExpectedInstructions(s) = <<>> THEN <<>> ELSE ExpectedInstructions(s)[1]

\* the connected model is not a chat model, or its model name or its API key
\* is missing or not a string
FailsValidation(m) ==
    \/ "chat_models" \notin {m.lc_namespace[k] : k \in 1..Len(m.lc_namespace)}
    \/ \E member \in {m.model, m.apiKey} : ~member.has \/ member.type # "string"

\* C1: whatever the outcomes of the engine calls, execute ends by returning
\* exactly n records, the k-th one that of item k.
C1_OneRecordPerItem ==
    (Terminal /\ ~FailsValidation(model)) =>
        /\ output.state = "returned"
        /\ Len(output.records) = n
        /\ \A k \in 1..n : output.records[k].item = k

\* C2: when init or goto of item i fails, execute goes on: the records of the
\* items before i are kept and item i gets an error record without payload.
C2_OpenAndNavigationFailuresContained ==
    (Failed("init") \/ Failed("goto")) =>
        /\ pc # "thrown"
        /\ Len(results) >= Item
        /\ results[Item].item = Item
        /\ results[Item].error
        /\ NoPayload(results[Item].json)

\* C3: close is never called twice for an item, and once an item whose init
\* succeeded is over (by any exit) close has been called exactly once.
C3_CloseOncePerOpenedSession ==
    /\ Len(CallsOf("close")) <= 1
    /\ (ItemEnded /\ SessionOpened) => Len(CallsOf("close")) = 1

\* C4: when close of an item fails, execute still returns, and the returned
\* output holds the record of that item and of every earlier one.
C4_CloseFailureMasksNothing ==
    Failed("close") =>
        /\ output.state # "rejected"
        /\ Len(results) = Item
        /\ (Terminal => output.records = results)

\* C5: once the catch block has run for an item, the item has exactly one
\* record, the last of results: it carries the error, the operation tag, no
\* payload, and the filtered log lines exactly when log capture is on; and
\* execute does not reject, it goes on with the next item.
C5_DispatchErrorContained ==
    caught =>
        /\ Len(results) = Item
        /\ results[Item].item = Item
        /\ results[Item].error
        /\ results[Item].json.operation = cur.operation
        /\ DOMAIN results[Item].json =
              (IF cur.logMessages THEN {"operation", "messages"} ELSE {"operation"})
        /\ cur.logMessages =>
              \E m \in 0..Len(messages) :
                 results[Item].json.messages = sanitizeMessages(SubSeq(messages, 1, m))
        /\ pc # "thrown"

\* C6: at most one session is open, it is the one of the item being
\* processed, and no session is open when the next one is about to be opened.
C6_OneSessionAtATime ==
    /\ Cardinality(open) <= 1
    /\ open \subseteq {Item}
    /\ pc \in {"loop", "init", "returned"} => open = {}

C6_Witness == i = 2 /\ pc = "try" /\ open = {2}

\* C7: the act calls of an item are made for the non-blank lines of the
\* block, trimmed, in the order of the block, none after a call that threw;
\* the act record has one {instruction, result} pair per call in that order.
C7_ActInstructionsInOrder ==
    cur.operation = "act" =>
        LET exp == ExpectedInstructions(cur.instructionsRaw)
            acts == CallsOf("act")
        IN /\ Len(acts) <= Len(exp)
           /\ \A k \in 1..Len(acts) : acts[k].instruction = exp[k]
           /\ \A k \in 1..(Len(acts) - 1) : acts[k].ok
           /\ (pc = "act" /\ todo = <<>>) => Len(acts) = Len(exp)
           /\ (Dispatched /\ ~caught) =>
                 /\ Len(results) = Item
                 /\ ~results[Item].error
                 /\ results[Item].json.results =
                       [k \in 1..Len(exp) |-> [instruction |-> exp[k], result |-> "acted"]]
                 /\ Len(acts) = Len(exp)
                 /\ \A k \in 1..Len(acts) : acts[k].ok

C7_Witness ==
    /\ cur.operation = "act"
    /\ cur.instructionsRaw = <<"a", "\n", "\n", "b">>
    /\ pc = "finally"
    /\ ~caught
    /\ Len(results[1].json.results) = 2

\* C8: the instruction handed to extract and to observe is the first line of
\* the block that is not blank, trimmed.
C8_FirstNonEmptyLine ==
    \A k \in 1..Len(calls) :
        calls[k].call \in {"extract", "observe"} =>
            calls[k].instruction = FirstNonEmptyLine(cur.instructionsRaw)

\* C9: for an item whose operation is none of act, extract, observe, agent,
\* no act, extract, observe or agent call is made, and once the switch has
\* been left the item's record is there and carries an error.
C9_UnsupportedOperationDispatchesNothing ==
    (cur.operation \notin {"act", "extract", "observe", "agent", Unread}) =>
        /\ \A k \in 1..Len(calls) :
              calls[k].call \notin {"act", "extract", "observe", "agent"}
        /\ Dispatched =>
              /\ Len(results) = Item
              /\ results[Item].item = Item
              /\ results[Item].error
              /\ NoPayload(results[Item].json)

C9_Witness ==
    /\ cur.operation = "scroll"
    /\ pc = "finally"
    /\ i = 2
    /\ results[2].error

\* C10: extract is only ever called with an object-shaped contract.
C10_ExtractOnlyWithObjectContract ==
    \A k \in 1..Len(calls) :
        calls[k].call = "extract" => calls[k].schema = "object"

\* the model name holds 'deepseek'; the namespace is one of the google ones
NamesDeepseek(m) == "deepseek" \in {m.model.text[k] : k \in 1..Len(m.model.text)}

GoogleNamespace(m) == m.lc_namespace[3] \in {"google_genai", "google_vertexai"}

\* the session of the current item has been built (line 406)
SessionBuilt == pc \in {"init", "nav", "try", "act", "finally"}

\* C11 as claimed: the provider is 'deepseek' whenever the model name holds
\* 'deepseek', for every namespace; otherwise 'google' for the google
\* namespaces; otherwise the namespace value.  The identity is
\* provider + '/' + model name.
C11_DeepseekWhateverTheNamespace ==
    SessionBuilt =>
        cur.modelName =
            <<IF NamesDeepseek(model) THEN "deepseek"
              ELSE IF GoogleNamespace(model) THEN "google"
              ELSE model.lc_namespace[3], "/">> \o model.model.text

\* C11 amended: the provider is 'google' for the namespaces google_genai and
\* google_vertexai, whatever the model name; otherwise 'deepseek' when the
\* model name holds 'deepseek'; otherwise the namespace value.  The identity
\* is provider + '/' + model name.
C11_GoogleBeforeDeepseek ==
    SessionBuilt =>
        cur.modelName =
            <<IF GoogleNamespace(model) THEN "google"
              ELSE IF NamesDeepseek(model) THEN "deepseek"
              ELSE model.lc_namespace[3], "/">> \o model.model.text

C11_Witness ==
    /\ pc = "init"
    /\ model.lc_namespace[3] = "google_vertexai"
    /\ model.model.text = <<"deepseek", "-chat">>
    /\ cur.modelName = <<"google", "/", "deepseek", "-chat">>

\* the result of the call is, in the order of arg, the category, message and
\* level of the messages at the positions K of arg
ReturnsMessagesAt(K) ==
    /\ Len(ret.value) = Cardinality(K)
    /\ \A k \in K :
          ret.value[Cardinality({m \in K : m <= k})] =
              [category |-> arg[k].category, message |-> arg[k].message,
               level |-> arg[k].level]

MarkerFree(msg) == msg.marks \cap {"image", "screenshot"} = {}

\* C12 as claimed: sanitizeMessages returns, in their original relative
\* order, exactly the messages whose serialized form holds neither 'image'
\* nor 'screenshot' and does not exceed 5000 characters: a marker-free
\* message of length exactly 5000 is retained, one of length 5001 is not.
C12_KeepsUpTo5000 ==
    ret.done =>
        ReturnsMessagesAt({k \in 1..Len(arg) :
                              MarkerFree(arg[k]) /\ ~(arg[k].length > SanitizeLimit)})

\* C12 amended: sanitizeMessages returns, in their original relative order,
\* exactly the messages whose serialized form holds neither 'image' nor
\* 'screenshot' and is shorter than 5000 characters: a marker-free message
\* of length 4999 is retained, one of length 5000 or 5001 is not.
C12_KeepsBelow5000 ==
    ret.done =>
        ReturnsMessagesAt({k \in 1..Len(arg) :
                              MarkerFree(arg[k]) /\ ~(arg[k].length >= SanitizeLimit)})

C12_Witness ==
    /\ ret.done
    /\ Len(arg) = 3
    /\ \A k \in 1..3 : MarkerFree(arg[k])
    /\ arg[1].length = SanitizeLimit - 1 /\ arg[1].level = 1
    /\ arg[2].length = SanitizeLimit
    /\ arg[3].length = SanitizeLimit - 1 /\ arg[3].level = 0
    /\ ret.value = <<[category |-> "action", message |-> "clicked", level |-> 1],
                     [category |-> "action", message |-> "clicked", level |-> 0]>>

\* the messages of arg of the usage category whose payload parses to an
\* object with a usage object
UsageBearing ==
    {k \in 1..Len(arg) :
        /\ arg[k].category = "aisdk"
        /\ arg[k].auxiliary.value = "json"
        /\ arg[k].auxiliary.hasUsage}

\* a counter of a usage object, under its snake_case or its camelCase key
Counter(u, snake, camel) ==
    IF snake \in DOMAIN u /\ u[snake] # 0 THEN u[snake]
    ELSE IF camel \in DOMAIN u THEN u[camel]
    ELSE 0

\* the sum of a counter over the usage-bearing messages of arg
Total(snake, camel) ==
    LET sum[k \in 0..Len(arg)] ==
            IF k = 0 THEN 0
            ELSE sum[k - 1] + (IF k \in UsageBearing
                               THEN Counter(arg[k].auxiliary.usage, snake, camel)
                               ELSE 0)
    IN sum[Len(arg)]

\* C13: extractUsageFromMessages returns absent when no message of the
\* usage category yields a parseable usage object (so for the empty
\* sequence); otherwise it returns, for each of the three counters, the sum
\* of that counter over all usage-category messages with a parseable usage
\* object: a message whose payload fails to parse changes no sum and does
\* not stop the scan of the later messages.
C13_UsageSummedOverParseableMessages ==
    ret.done =>
        IF UsageBearing = {}
        THEN ret.value = NoUsage
        ELSE /\ ret.value.found
             /\ ret.value.prompt_tokens = Total("prompt_tokens", "promptTokens")
             /\ ret.value.completion_tokens = Total("completion_tokens", "completionTokens")
             /\ ret.value.total_tokens = Total("total_tokens", "totalTokens")

\* a malformed payload between two usage-bearing messages, all counted
C13_Witness ==
    /\ ret.done
    /\ Len(arg) = 3
    /\ \A k \in 1..3 : arg[k].category = "aisdk"
    /\ arg[1].auxiliary = UsageLine.auxiliary
    /\ arg[2].auxiliary.value = "malformed"
    /\ "promptTokens" \in DOMAIN arg[3].auxiliary.usage
    /\ "prompt_tokens" \in DOMAIN arg[3].auxiliary.usage
    /\ ret.value.found
    /\ ret.value.prompt_tokens = 9
    /\ ret.value.completion_tokens = 3
    /\ ret.value.total_tokens = 11

\* the empty sequence gives no usage
C13_WitnessEmpty == ret.done /\ arg = <<>> /\ ret.value = NoUsage

\* the property type of each kind of field; any other kind is unconstrained
KindType ==
    [string |-> "string", number |-> "number", boolean |-> "boolean",
     array |-> "array(any)", object |-> "object(passthrough)"]

ValidFieldList ==
    /\ \A k \in 1..Len(arg) : arg[k].fieldName # ""
    /\ \A k, m \in 1..Len(arg) : arg[k].fieldName = arg[m].fieldName => k = m

\* C14: for every field list with non-empty, pairwise distinct names,
\* fieldsToZodSchema returns an object contract whose property names are
\* exactly the given field names, where a property is optional if and only
\* if its descriptor is marked optional, and whose property type is the one
\* mapped from the descriptor's kind (an unknown kind maps to any).
C14_ContractHasExactlyTheFields ==
    (ret.done /\ ValidFieldList) =>
        /\ ret.value.type = "object"
        /\ DOMAIN ret.value.shape = {arg[k].fieldName : k \in 1..Len(arg)}
        /\ \A k \in 1..Len(arg) :
              LET property == ret.value.shape[arg[k].fieldName]
              IN /\ property.optional = arg[k].optional
                 /\ property.type = IF arg[k].fieldType \in DOMAIN KindType
                                    THEN KindType[arg[k].fieldType]
                                    ELSE "any"

OperationCalls == {"act", "extract", "observe", "agent"}

\* C15: within one item the engine calls are ordered open, then navigate,
\* then operation calls, then close: navigate is called if and only if the
\* navigation URL is non-empty, an operation call is made only after open
\* (and navigate, when requested) succeeded, only calls of the kind named by
\* the item's operation tag are made, and no call follows close.
C15_CallsInSessionOrder ==
    /\ \A k \in 1..Len(calls) :
          /\ (calls[k].call = "init") = (k = 1)
          /\ calls[k].call = "goto" => k = 2
          /\ calls[k].call = "close" => k = Len(calls)
          /\ calls[k].call \in OperationCalls =>
                /\ calls[k].call = cur.operation
                /\ \A m \in 1..(k - 1) : calls[m].call \in {"init", "goto"} => calls[m].ok
                /\ cur.pageUrl # Unread
          /\ calls[k].call \in {"goto", "close"} => cur.pageUrl # Unread
    /\ cur.pageUrl # Unread => ((CallsOf("goto") # <<>>) <=> (cur.pageUrl # ""))

\* an item that navigated, made two act calls and closed its session
C15_Witness ==
    /\ Len(calls) = 5
    /\ [k \in 1..5 |-> calls[k].call] = <<"init", "goto", "act", "act", "close">>
    /\ cur.pageUrl # ""

\* C19: when the connected model fails validation (not a chat model, or
\* model name or API key missing or not a string), execute fails before the
\* item loop starts: no session is opened, no engine call is made and no
\* record is produced for any item.
C19_InvalidModelStopsBeforeTheLoop ==
    (pc # "start" /\ FailsValidation(model)) =>
        /\ pc = "thrown"
        /\ output.state = "rejected"
        /\ output.records = <<>>
        /\ results = <<>>
        /\ calls = <<>>
        /\ open = {}
        /\ cur = NoItem

\* a chat model whose API key is not a string
C19_Witness ==
    /\ pc = "thrown"
    /\ "chat_models" \in {model.lc_namespace[k] : k \in 1..Len(model.lc_namespace)}
    /\ model.model.type = "string"
    /\ model.apiKey.has
    /\ model.apiKey.type = "number"
    /\ calls = <<>>

\* the item of `calls` has its record in results
HasRecord == Item >= 1 /\ Len(results) >= Item

\* C16: each item has its own buffer: the messages of item k's record, and
\* those its agent usage is summed from, were emitted through the logger of
\* item k's session and by no session of another item, whatever the moment
\* at which the loggers of the sessions are called.
C16_BufferHoldsOwnSessionOnly ==
    /\ \A k \in 1..Len(messages) : messages[k].session = Item
    /\ \A s \in 1..Len(stale) : \A k \in 1..Len(stale[s].late) :
          stale[s].late[k].session = s
    /\ (HasRecord /\ cur.logMessages) =>
          \E p \in 0..Len(messages) :
             LET own == SubSeq(messages, 1, p)
                 json == results[Item].json
             IN /\ json.messages = sanitizeMessages(own)
                /\ "usage" \in DOMAIN json => json.usage = extractUsageFromMessages(own)

\* the logger of item 1's session is called while item 2 runs; item 2's
\* agent record holds item 2's own line and usage
C16_Witness ==
    /\ i = 2
    /\ pc = "finally"
    /\ cur.logMessages
    /\ cur.operation = "agent"
    /\ stale[1].late # <<>>
    /\ Len(messages) = 1
    /\ messages[1].session = 2
    /\ HasRecord
    /\ ~results[2].error
    /\ Len(results[2].json.messages) = 1
    /\ results[2].json.usage.found

\* C17: for operation act, when the act call for an instruction throws, no
\* act call is made for the instructions after it, and the one record of
\* the item carries the error and none of the {instruction, result} pairs
\* of the instructions that had succeeded.
C17_ActFailureDropsEarlierPairs ==
    Failed("act") =>
        LET acts == CallsOf("act")
        IN /\ ~acts[Len(acts)].ok
           /\ \A k \in 1..(Len(acts) - 1) : acts[k].ok
           /\ calls[Len(calls)].call \in {"act", "close"}
           /\ Len(results) = Item
           /\ \A k \in 1..Len(results) : (results[k].item = Item) = (k = Item)
           /\ results[Item].error
           /\ "results" \notin DOMAIN results[Item].json
           /\ NoPayload(results[Item].json)

\* the second of two instructions fails after the first succeeded
C17_Witness ==
    /\ cur.operation = "act"
    /\ cur.instructionsRaw = <<"a", "\n", "b">>
    /\ Len(CallsOf("act")) = 2
    /\ CallsOf("act")[1].ok
    /\ ~CallsOf("act")[2].ok
    /\ actResults # <<>>
    /\ results[Item].error

\* C18: for operation agent, the usage of the record is absent whenever
\* logMessages is off for the item, whatever the engine did: no logger is
\* registered and the buffer of the item stays empty.
C18_NoUsageWithoutLogCapture ==
    (cur # NoItem /\ ~cur.logMessages) =>
        /\ messages = <<>>
        /\ (HasRecord /\ cur.operation = "agent" /\ ~results[Item].error) =>
              results[Item].json.usage = NoUsage

C18_Witness ==
    /\ cur.operation = "agent"
    /\ ~cur.logMessages
    /\ pc = "finally"
    /\ ~caught
    /\ HasRecord
    /\ results[Item].json.success
    /\ results[Item].json.usage = NoUsage

====
